---------------------------- MODULE Spec2Model ----------------------------
(***************************************************************************)
(* A model of DatabaseHandler (src/DatabaseHandler.py), of the helper      *)
(* infer_sql_types (src/utils.py), and of get_credentials                  *)
(* (src/GoogleDriveClientConfig.py).  Spec follows the handler, SpecInfer  *)
(* the helper called on its own, SpecCreds the credentials.                *)
(*                                                                         *)
(* The handler runs every public operation inside _manage_session: it      *)
(* connects, runs the body, rolls back when the body raises, and closes    *)
(* in a finally block.  The model follows one caller through a sequence    *)
(* of operations on one target table; every engine call is one step, and   *)
(* every engine call may raise.                                            *)
(*                                                                         *)
(* The engine is the collaborator the handler is written against           *)
(* (SQLAlchemy 2 Connection, pandas DataFrame.to_sql, an SQL store):       *)
(*   - a Connection begins a transaction at its first execute; commit      *)
(*     makes the work durable, rollback and close discard it;              *)
(*   - DataFrame.to_sql given a Connection that is in no transaction runs  *)
(*     in a transaction of its own, committed when the call returns and    *)
(*     rolled back when it raises; given a Connection that is in a         *)
(*     transaction it joins that transaction;                              *)
(*   - TRUNCATE TABLE is committed by the store as it executes where it    *)
(*     is a DDL statement (Oracle, MySQL) and is part of the session's     *)
(*     transaction elsewhere (PostgreSQL, SQL Server); the engine handle   *)
(*     is the caller's, so the model takes either kind of store.           *)
(*                                                                         *)
(* A row is identified by its key, which for a row written from a          *)
(* DataFrame is its row index in that DataFrame.                           *)
(***************************************************************************)
EXTENDS Integers, Sequences, FiniteSets, TLC

\* Bounds of the model.
MaxRows == 3          \* a DataFrame has 0..MaxRows rows
MaxDatasets == 2      \* a write call takes 0..MaxDatasets DataFrames
MaxChunk == 2         \* kwargs["chunksize"] ranges over -1..MaxChunk, or is missing
MaxTableRows == 4     \* a write call is started only if its rows fit in the table
MaxCols == 2          \* infer_sql_types on its own: df has 0..MaxCols columns
MaxFlows == 3         \* get_credentials is called while fewer flows than this ran

VARIABLES
    pc,           \* "Idle", a step of the running operation, or "return" when
                  \* the operation has returned or raised
    op,           \* the operation running (or the last one run)
    table,        \* the durable table: [exists, rows]
    work,         \* the table as the open session sees it (its uncommitted work)
    inTxn,        \* the open session has begun a transaction
    sessionOpen,  \* number of sessions open on the engine
    log,          \* engine calls issued by the current operation, in order
    exc,          \* exception in flight inside _manage_session ("none" if none)
    bodyExc,      \* exception the with-body raised ("none" if none)
    raised,       \* exception that reached the caller of the last operation
    ret,          \* value the last operation returned
    table0,       \* the durable table when the current operation was called
    dataframes,   \* write_dataframe_to_db: *dataframes
    kwargs,       \* write_dataframe_to_db: **kwargs
    statement,    \* execute_query / delete_records: the statement's predicate
    dfIdx,        \* write_dataframe_to_db: index of df in dataframes
    chunk_start,  \* write_dataframe_to_db: chunk_start
    chunk_end,    \* write_dataframe_to_db: chunk_end
    progress,     \* progress_bar.n
    reports,      \* values of progress_bar.n after each update, current DataFrame
    chunks,       \* <<chunk_start, chunk_end>> of each to_sql call, current DataFrame
    infoLog,      \* logger.info messages of the current operation
    fetched,      \* execute_query: column_names and rows read from result_proxy
    schema,       \* self._schema
    db_engine,    \* self.db_engine: the engine handle given at construction
    table_name,   \* empty_table / write_dataframe_to_db: table_name
    column_sql_types, \* write_dataframe_to_db: column_sql_types of the current df
    sent,         \* arguments of each statement or chunk write sent to the engine
                  \* by the current operation, in order
    inf_df,       \* infer_sql_types called on its own: df
    inf_maps,     \* infer_sql_types called on its own: the results, in call order
    g_pc,         \* get_credentials: "Idle", a step of the call, or "return"
    token_file,   \* google_token.json: the credentials stored, or NoCreds
    creds,        \* get_credentials: creds
    flow_creds,   \* get_credentials_from_flow: creds
    stored,       \* what retrieve_credentials gave the current call
    refreshed,    \* the current call has refreshed creds
    flow_ran,     \* the current call has run the interactive flow
    rewrote,      \* the current call has rewritten the token file
    flows,        \* interactive flows run since construction
    g_ret,        \* credentials the last get_credentials call returned
    g_raised      \* exception the last get_credentials call raised

vars == <<pc, op, table, work, inTxn, sessionOpen, log, exc, bodyExc, raised, ret,
          table0, dataframes, kwargs, statement, dfIdx, chunk_start, chunk_end,
          progress, reports, chunks, infoLog, fetched, schema, db_engine,
          table_name, column_sql_types, sent, inf_df, inf_maps, g_pc,
          token_file, creds, flow_creds, stored, refreshed, flow_ran, rewrote,
          flows, g_ret, g_raised>>

writeLocals == <<dfIdx, chunk_start, chunk_end, progress, reports, chunks,
                 column_sql_types>>
callArgs == <<dataframes, kwargs, statement, table_name>>
facade == <<schema, db_engine>>
inferVars == <<inf_df, inf_maps>>
credVars == <<g_pc, token_file, creds, flow_creds, stored, refreshed, flow_ran,
              rewrote, flows, g_ret, g_raised>>

----------------------------------------------------------------------------
\* Values

Min(a, b) == IF a <= b THEN a ELSE b

Store(exists, rows) == [exists |-> exists, rows |-> rows]

NoValue == [kind |-> "unset", columns |-> <<>>, rows |-> <<>>]
NoneValue == [kind |-> "None", columns |-> <<>>, rows |-> <<>>]
IntValue(n) == [kind |-> "int", columns |-> <<>>, rows |-> <<n>>]
DataFrameValue(columns, rows) ==
    [kind |-> "DataFrame", columns |-> columns, rows |-> rows]

ColumnNames == <<"key">>

\* A column of a DataFrame: its name and str() of its dtype
Column(name, dtype) == [name |-> name, dtype |-> dtype]

\* The columns of the DataFrames written to the table: the integer key
KeyColumns == <<Column("key", "int64")>>

DataFrames ==
    UNION {[1..n -> [rows : 0..MaxRows, cols : {KeyColumns}]] : n \in 0..MaxDatasets}

\* A keyword argument that is not given is "missing".
Kwargs ==
    [has_chunksize : {TRUE}, chunksize : -1..MaxChunk,
     if_exists : {"missing", "fail", "append", "replace"},
     schema : {"missing", "other"}]
    \cup [has_chunksize : {FALSE}, chunksize : {0},
          if_exists : {"missing", "fail", "append", "replace"},
          schema : {"missing", "other"}]

Statements == 0..MaxRows

\* **kwargs of a call that gives none
NoKwargs == [has_chunksize |-> FALSE, chunksize |-> 0, if_exists |-> "missing",
             schema |-> "missing"]

\* A table name is a string, here the sequence of its characters.
TableNames == {<<"T", "b">>, <<"t", "b">>}
NoName == <<>>

\* str.lower()
LowerChar(c) == CASE c = "T" -> "t" [] c = "B" -> "b" [] OTHER -> c
Lower(name) == [i \in DOMAIN name |-> LowerChar(name[i])]

\* The schema the handler is constructed with, and the values a caller may
\* try to assign to handler.schema later.
SchemaName == "analytics"
Schemas == {SchemaName, "other"}

\* The engine handle is the caller's: a store whose TRUNCATE TABLE is a DDL
\* statement committed as it executes (Oracle, MySQL), or one whose TRUNCATE
\* TABLE is part of the session's transaction (PostgreSQL, SQL Server).
Engines == [truncate_autocommits : BOOLEAN]

RECURSIVE SumRows(_)
SumRows(dfs) == IF dfs = <<>> THEN 0 ELSE Head(dfs).rows + SumRows(Tail(dfs))

RECURSIVE Count(_, _)
Count(s, e) ==
    IF s = <<>> THEN 0 ELSE (IF Head(s) = e THEN 1 ELSE 0) + Count(Tail(s), e)

----------------------------------------------------------------------------
\* The engine: statements and chunk writes

\* df.iloc[chunk_start:chunk_end]: the rows chunk_start .. chunk_end - 1
Iloc(s, e) == [i \in 1..(e - s) |-> s + i - 1]

\* A statement's predicate p selects the rows whose key is below p.
Matches(key, p) == key < p

RECURSIVE Select(_, _)
Select(rows, p) ==
    IF rows = <<>> THEN <<>>
    ELSE (IF Matches(Head(rows), p) THEN <<Head(rows)>> ELSE <<>>)
         \o Select(Tail(rows), p)

RECURSIVE Remaining(_, _)
Remaining(rows, p) ==
    IF rows = <<>> THEN <<>>
    ELSE (IF Matches(Head(rows), p) THEN <<>> ELSE <<Head(rows)>>)
         \o Remaining(Tail(rows), p)

\* A rowcount that counts every row of the table
Rowcount_All(rows, p) == Len(rows)

\* result.rowcount of a delete statement
Rowcount(rows, p) == Len(Select(rows, p))

\* An if_exists that is applied to the first chunk write of a call only, the
\* later ones appending
IfExists_FirstChunkOnly(kw) ==
    IF sent # <<>> THEN "append"
    ELSE IF kw.if_exists = "missing" THEN "fail" ELSE kw.if_exists

\* pandas' if_exists defaults to "fail"
IfExists(kw) == IF kw.if_exists = "missing" THEN "fail" ELSE kw.if_exists

\* DataFrame.to_sql(name=table, ..., if_exists=mode) of the rows `chunk`
ToSqlFails(store, mode) == store.exists /\ mode = "fail"
ToSqlStore(store, chunk, mode) ==
    IF store.exists /\ mode # "replace"
    THEN Store(TRUE, store.rows \o chunk)
    ELSE Store(TRUE, chunk)

----------------------------------------------------------------------------
\* infer_sql_types and the chunk arithmetic of write_dataframe_to_db

\* infer_sql_types without the emptiness check
DfEmpty_Unchecked(df) == FALSE

\* df.empty
DfEmpty(df) == df.rows = 0 \/ df.cols = <<>>

\* The keys of sql_type_mapping
MappedDtypes ==
    {"object", "category", "string[pyarrow]", "double[pyarrow]", "datetime64[ns]",
     "timestamp[us][pyarrow]", "float64", "int64"}

\* dtypes a column may have that are no key of sql_type_mapping: the
\* timezone-aware timestamps, a decimal and a 32-bit integer
UnmappedDtypes ==
    {"datetime64[ns, UTC]", "timestamp[us, tz=UTC][pyarrow]",
     "decimal128(10, 2)[pyarrow]", "int32"}

Dtypes == MappedDtypes \cup UnmappedDtypes

\* sql_type_mapping with int64 stored as FLOAT
sql_type_mapping_IntAsFloat(dtype) ==
    CASE dtype \in {"object", "category", "string[pyarrow]"} -> "String"
      [] dtype \in {"double[pyarrow]", "float64", "int64"} -> "FLOAT"
      [] dtype \in {"datetime64[ns]", "timestamp[us][pyarrow]"} -> "DATE"

\* sql_type_mapping[dtype], for a key of the mapping
sql_type_mapping(dtype) ==
    CASE dtype \in {"object", "category", "string[pyarrow]"} -> "String"
      [] dtype \in {"double[pyarrow]", "float64"} -> "FLOAT"
      [] dtype \in {"datetime64[ns]", "timestamp[us][pyarrow]"} -> "DATE"
      [] dtype = "int64" -> "NUMBER"

\* A lookup without a default: an unknown dtype is a KeyError
SqlTypeOf_NoDefault(dtype) ==
    IF dtype \in MappedDtypes THEN sql_type_mapping(dtype) ELSE "KeyError"

\* sql_type_mapping.get(dtype, String)
SqlTypeOf(dtype) ==
    IF dtype \in MappedDtypes THEN sql_type_mapping(dtype) ELSE "String"

\* df.columns as a set of labels
ColumnLabels(df) == {df.cols[i].name : i \in DOMAIN df.cols}

\* str(df[col].dtypes): the dtype of the column labelled col; when several
\* columns carry the label, df[col] is a DataFrame and the string is the
\* listing of their dtypes.
DtypeStr(df, col) ==
    LET is == {i \in DOMAIN df.cols : df.cols[i].name = col}
    IN  IF Cardinality(is) = 1
        THEN df.cols[CHOOSE i \in is : TRUE].dtype
        ELSE "dtype listing"

InferResult(err, map) == [err |-> err, map |-> map]

\* infer_sql_types(df): raises on an empty df, else the dict that gives the
\* SQL type of each column label
infer_sql_types(df) ==
    IF DfEmpty(df)
    THEN InferResult("EmptyDataFrameError", <<>>)
    ELSE InferResult("none",
             [col \in ColumnLabels(df) |-> SqlTypeOf(DtypeStr(df, col))])

\* The DataFrames infer_sql_types is called with on its own
InferInputs ==
    [rows : 0..1,
     cols : UNION {[1..n -> [name : {"a", "b"}, dtype : Dtypes]] : n \in 0..MaxCols}]

\* The column orders of df: df with its columns permuted
Reordered(df) ==
    LET n == Len(df.cols)
        perms == {f \in [1..n -> 1..n] : \A i, j \in 1..n : f[i] = f[j] => i = j}
    IN  {[df EXCEPT !.cols = [i \in 1..n |-> df.cols[f[i]]]] : f \in perms}

\* chunk_end without the min: the last chunk is not truncated
ChunkEnd_NoMin(start, chunksize, rows) == start + chunksize

\* chunk_end = min(chunk_start + kwargs["chunksize"], rows)
ChunkEnd(start, chunksize, rows) == Min(start + chunksize, rows)

\* range(0, rows, chunksize) is exhausted at chunk_start
RangeDone(start, chunksize, rows) == chunksize < 0 \/ start >= rows

\* progress advanced by the chunk size, not by the chunk's row count
ProgressDelta_Chunksize(start, end) == kwargs.chunksize

\* progress_bar.update(data_chunk.shape[0])
ProgressDelta(start, end) == end - start

----------------------------------------------------------------------------
\* Credentials (google.oauth2.credentials.Credentials)

\* Credentials number id: id 0 is what the token file held at construction,
\* id n > 0 what the n-th interactive flow gave.
Credentials(id, token, expired, refresh_token) ==
    [kind |-> "Credentials", id |-> id, token |-> token, expired |-> expired,
     refresh_token |-> refresh_token]

\* None: retrieve_credentials when the token file does not exist
NoCreds ==
    [kind |-> "None", id |-> 0, token |-> FALSE, expired |-> FALSE,
     refresh_token |-> FALSE]

\* What the token file may hold at construction
StoredCredentials ==
    {Credentials(0, t, e, r) : t \in BOOLEAN, e \in BOOLEAN, r \in BOOLEAN}

\* `creds and creds.valid`: there is an access token and it has not expired
Valid(c) == c.kind = "Credentials" /\ c.token /\ ~c.expired

\* creds and self._check_credentials_expire(creds)
CheckCredentialsExpire(c) == c.kind = "Credentials" /\ c.expired /\ c.refresh_token

\* creds after a successful creds.refresh(Request()): a fresh access token
Refreshed(c) == [c EXCEPT !.token = TRUE, !.expired = FALSE]

\* No get_credentials call is running and none has run.
CredsAtRest ==
    /\ g_pc = "Idle"
    /\ creds = NoCreds
    /\ flow_creds = NoCreds
    /\ stored = NoCreds
    /\ refreshed = FALSE
    /\ flow_ran = FALSE
    /\ rewrote = FALSE
    /\ flows = 0
    /\ g_ret = NoCreds
    /\ g_raised = "none"

----------------------------------------------------------------------------
\* State after construction: no operation has run, no session is open; the
\* target table is absent or empty.

Init ==
    /\ pc = "Idle"
    /\ op = "none"
    /\ table \in {Store(FALSE, <<>>), Store(TRUE, <<>>)}
    /\ work = table
    /\ inTxn = FALSE
    /\ sessionOpen = 0
    /\ log = <<>>
    /\ exc = "none"
    /\ bodyExc = "none"
    /\ raised = "none"
    /\ ret = NoValue
    /\ table0 = table
    /\ dataframes = <<>>
    /\ kwargs = NoKwargs
    /\ statement = 0
    /\ dfIdx = 1
    /\ chunk_start = 0
    /\ chunk_end = 0
    /\ progress = 0
    /\ reports = <<>>
    /\ chunks = <<>>
    /\ infoLog = <<>>
    /\ fetched = NoValue
    /\ schema = SchemaName
    /\ db_engine \in Engines
    /\ table_name = NoName
    /\ column_sql_types = <<>>
    /\ sent = <<>>
    /\ inf_df = [rows |-> 0, cols |-> <<>>]
    /\ inf_maps = <<>>
    /\ token_file = NoCreds
    /\ CredsAtRest

Info(msg, n) == [msg |-> msg, n |-> n]

\* What a statement or chunk write sent to the engine carries: the call, the
\* table name and schema it addresses, and for a chunk write the DataFrame,
\* the chunk, the dtype map and the keyword arguments passed on.
Sent(fn, name, sch, df, chunk, dtype, kw) ==
    [fn |-> fn, name |-> name, schema |-> sch, df |-> df, chunk |-> chunk,
     dtype |-> dtype, kwargs |-> kw]

----------------------------------------------------------------------------
\* _manage_session

\* session = self.db_engine.connect(), as the first step of operation `name`
\* called with the given arguments; `first` is the first step of its body.
manage_session_enter(name, first, tname, dfs, kw, stmt, info) ==
    /\ pc = "Idle"
    /\ op' = name
    /\ table_name' = tname
    /\ column_sql_types' = <<>>
    /\ sent' = <<>>
    /\ dataframes' = dfs
    /\ kwargs' = kw
    /\ statement' = stmt
    /\ table0' = table
    /\ log' = <<"connect">>
    /\ infoLog' = info
    /\ exc' = "none"
    /\ bodyExc' = "none"
    /\ ret' = NoValue
    /\ fetched' = NoValue
    /\ dfIdx' = 1
    /\ chunk_start' = 0
    /\ chunk_end' = 0
    /\ progress' = 0
    /\ reports' = <<>>
    /\ chunks' = <<>>
    /\ work' = table
    /\ inTxn' = FALSE
    /\ UNCHANGED <<table, facade, inferVars, credVars>>
    /\ \E connected \in BOOLEAN :
          IF connected
          THEN /\ sessionOpen' = sessionOpen + 1
               /\ raised' = "none"
               /\ pc' = first
          ELSE /\ sessionOpen' = sessionOpen
               /\ raised' = "DBAPIError:connect"
               /\ pc' = "return"

\* A body that swallows the error of a call and issues the call again
Raise_Retry(e) ==
    /\ pc' = pc
    /\ UNCHANGED <<exc, bodyExc>>

\* The with-body raises e: control passes to `except Exception as e`.
Raise(e) ==
    /\ exc' = e
    /\ bodyExc' = e
    /\ pc' = "except"

\* Rollback without the finally block: a rollback that raises leaves the
\* session open.
Rollback_NoFinally ==
    /\ pc = "except"
    /\ log' = Append(log, "rollback")
    /\ work' = table
    /\ inTxn' = FALSE
    /\ \E rolledBack \in BOOLEAN :
          IF rolledBack
          THEN /\ pc' = "finally"
               /\ UNCHANGED <<exc, raised>>
          ELSE /\ exc' = "DBAPIError:rollback"
               /\ raised' = "DBAPIError:rollback"
               /\ pc' = "return"
    /\ UNCHANGED <<op, table, sessionOpen, bodyExc, ret, table0, facade,
                   inferVars, credVars, sent, callArgs, writeLocals, infoLog,
                   fetched>>

\* Rollback that wraps the error: `raise RuntimeError(...) from e`.
Rollback_Wraps ==
    /\ pc = "except"
    /\ log' = Append(log, "rollback")
    /\ work' = table
    /\ inTxn' = FALSE
    /\ \E rolledBack \in BOOLEAN :
          exc' = IF rolledBack THEN "RuntimeError:wrapped" ELSE "DBAPIError:rollback"
    /\ pc' = "finally"
    /\ UNCHANGED <<op, table, sessionOpen, bodyExc, raised, ret, table0, facade,
                   inferVars, credVars, sent, callArgs, writeLocals, infoLog,
                   fetched>>

\* except Exception as e: session.rollback(); raise e
Rollback ==
    /\ pc = "except"
    /\ log' = Append(log, "rollback")
    /\ work' = table
    /\ inTxn' = FALSE
    /\ \E rolledBack \in BOOLEAN :
          exc' = IF rolledBack THEN exc ELSE "DBAPIError:rollback"
    /\ pc' = "finally"
    /\ UNCHANGED <<op, table, sessionOpen, bodyExc, raised, ret, table0, facade,
                   inferVars, credVars, sent, callArgs, writeLocals, infoLog,
                   fetched>>

\* What the operation returns after its with-block
ReturnValue ==
    IF op = "execute_query"
    THEN DataFrameValue(fetched.columns, fetched.rows)
    ELSE NoneValue

\* A close that is not in a finally block: it follows the rollback inside the
\* except block, so a rollback that raises passes it by.
Close_AfterRollback ==
    /\ pc = "finally"
    /\ log' = IF exc = "DBAPIError:rollback" THEN log ELSE Append(log, "close")
    /\ sessionOpen' = IF exc = "DBAPIError:rollback" THEN sessionOpen
                      ELSE sessionOpen - 1
    /\ work' = table
    /\ inTxn' = FALSE
    /\ raised' = exc
    /\ ret' = IF exc = "none" THEN ReturnValue ELSE NoValue
    /\ infoLog' = IF exc = "none" /\ op = "empty_table"
                  THEN Append(infoLog, Info("truncated", 0))
                  ELSE infoLog
    /\ pc' = "return"
    /\ UNCHANGED <<op, table, exc, bodyExc, table0, facade, inferVars, credVars,
                   sent, callArgs, writeLocals, fetched>>

\* finally: session.close(); then the exception in flight reaches the
\* caller, or the operation runs to its return.
Close ==
    /\ pc = "finally"
    /\ log' = Append(log, "close")
    /\ sessionOpen' = sessionOpen - 1
    /\ work' = table
    /\ inTxn' = FALSE
    /\ raised' = exc
    /\ ret' = IF exc = "none" THEN ReturnValue ELSE NoValue
    /\ infoLog' = IF exc = "none" /\ op = "empty_table"
                  THEN Append(infoLog, Info("truncated", 0))
                  ELSE infoLog
    /\ pc' = "return"
    /\ UNCHANGED <<op, table, exc, bodyExc, table0, facade, inferVars, credVars,
                   sent, callArgs, writeLocals, fetched>>

\* The operation has returned or raised: control is back with the caller,
\* the operation's frame is gone and nothing but the table outlives it.
Return ==
    /\ pc = "return"
    /\ pc' = "Idle"
    /\ op' = "none"
    /\ work' = table
    /\ inTxn' = FALSE
    /\ log' = <<>>
    /\ exc' = "none"
    /\ bodyExc' = "none"
    /\ raised' = "none"
    /\ ret' = NoValue
    /\ table0' = table
    /\ dataframes' = <<>>
    /\ kwargs' = NoKwargs
    /\ statement' = 0
    /\ dfIdx' = 1
    /\ chunk_start' = 0
    /\ chunk_end' = 0
    /\ progress' = 0
    /\ reports' = <<>>
    /\ chunks' = <<>>
    /\ infoLog' = <<>>
    /\ fetched' = NoValue
    /\ table_name' = NoName
    /\ column_sql_types' = <<>>
    /\ sent' = <<>>
    /\ UNCHANGED <<table, sessionOpen, facade, inferVars, credVars>>

----------------------------------------------------------------------------
\* execute_query

execute_query ==
    /\ pc = "Idle"
    /\ \E stmt \in Statements :
        manage_session_enter("execute_query", "q_execute", NoName, <<>>,
            NoKwargs,
            stmt, <<Info("Executing SQL query", stmt)>>)

\* result_proxy = session.execute(statement)
q_execute ==
    /\ pc = "q_execute"
    /\ log' = Append(log, "execute")
    /\ \E executed \in BOOLEAN :
          IF executed /\ work.exists
          THEN /\ inTxn' = TRUE
               /\ pc' = "q_fetch"
               /\ UNCHANGED <<exc, bodyExc>>
          ELSE /\ Raise("DBAPIError:execute")
               /\ UNCHANGED inTxn
    /\ UNCHANGED <<op, table, work, sessionOpen, raised, ret, table0, facade,
                   inferVars, credVars, sent, callArgs, writeLocals, infoLog,
                   fetched>>

\* execute_query that reads nothing inside the with-block and builds its
\* DataFrame from the result after the session is closed
q_fetch_AfterClose ==
    /\ pc = "q_fetch"
    /\ pc' = "finally"
    /\ UNCHANGED <<op, table, work, inTxn, sessionOpen, log, exc, bodyExc,
                   raised, ret, table0, facade, inferVars, credVars, sent,
                   callArgs, writeLocals, infoLog, fetched>>

\* column_names = result_proxy.keys(); rows = result_proxy.fetchall()
q_fetch ==
    /\ pc = "q_fetch"
    /\ fetched' = DataFrameValue(ColumnNames, Select(work.rows, statement))
    /\ log' = Append(log, "fetchall")
    /\ pc' = "finally"
    /\ UNCHANGED <<op, table, work, inTxn, sessionOpen, exc, bodyExc, raised,
                   ret, table0, facade, inferVars, credVars, sent, callArgs,
                   writeLocals, infoLog>>

----------------------------------------------------------------------------
\* empty_table

empty_table ==
    /\ pc = "Idle"
    /\ \E tname \in TableNames :
        manage_session_enter("empty_table", "t_execute", tname, <<>>,
            NoKwargs,
            0, <<Info("Truncating table", 0)>>)

\* sql_command = "TRUNCATE TABLE {}.{}".format(self.schema, table_name);
\* session.execute(text(sql_command)).  The statement empties the table in
\* the session; it is durable at once only where the store commits a
\* TRUNCATE as it executes.
t_execute ==
    /\ pc = "t_execute"
    /\ log' = Append(log, "execute")
    /\ sent' = Append(sent, Sent("execute", table_name, schema, 0, <<0, 0>>, <<>>,
                                 NoKwargs))
    /\ \E executed \in BOOLEAN :
          IF executed /\ work.exists
          THEN /\ inTxn' = TRUE
               /\ work' = Store(TRUE, <<>>)
               /\ table' = IF db_engine.truncate_autocommits THEN work' ELSE table
               /\ pc' = "finally"
               /\ UNCHANGED <<exc, bodyExc>>
          ELSE /\ Raise("DBAPIError:execute")
               /\ UNCHANGED <<inTxn, table, work>>
    /\ UNCHANGED <<op, sessionOpen, raised, ret, table0, facade, inferVars,
                   credVars, callArgs, writeLocals, infoLog, fetched>>

----------------------------------------------------------------------------
\* delete_records

delete_records ==
    /\ pc = "Idle"
    /\ \E stmt \in Statements :
        manage_session_enter("delete_records", "d_execute", NoName, <<>>,
            NoKwargs,
            stmt, <<Info("Deleting records", 0)>>)

\* count_deleted_records = session.execute(delete_statement); logger.info(rowcount)
d_execute ==
    /\ pc = "d_execute"
    /\ log' = Append(log, "execute")
    /\ \E executed \in BOOLEAN :
          IF executed /\ work.exists
          THEN /\ inTxn' = TRUE
               /\ work' = Store(TRUE, Remaining(work.rows, statement))
               /\ infoLog' = Append(infoLog,
                                Info("Deleted", Rowcount(work.rows, statement)))
               /\ pc' = "d_commit"
               /\ UNCHANGED <<exc, bodyExc>>
          ELSE /\ Raise("DBAPIError:execute")
               /\ UNCHANGED <<inTxn, work, infoLog>>
    /\ UNCHANGED <<op, table, sessionOpen, raised, ret, table0, facade,
                   inferVars, credVars, sent, callArgs, writeLocals, fetched>>

\* delete_records without its commit
d_commit_Missing ==
    /\ pc = "d_commit"
    /\ pc' = "finally"
    /\ UNCHANGED <<op, table, work, inTxn, sessionOpen, log, exc, bodyExc,
                   raised, ret, table0, facade, inferVars, credVars, sent,
                   callArgs, writeLocals, infoLog, fetched>>

\* session.commit()
d_commit ==
    /\ pc = "d_commit"
    /\ log' = Append(log, "commit")
    /\ \E committed \in BOOLEAN :
          IF committed
          THEN /\ table' = work
               /\ inTxn' = FALSE
               /\ pc' = "finally"
               /\ UNCHANGED <<exc, bodyExc>>
          ELSE /\ Raise("DBAPIError:commit")
               /\ UNCHANGED <<table, inTxn>>
    /\ UNCHANGED <<op, work, sessionOpen, raised, ret, table0, facade,
                   inferVars, credVars, sent, callArgs, writeLocals, infoLog,
                   fetched>>

----------------------------------------------------------------------------
\* write_dataframe_to_db

\* table = table_name.lower(); with self._manage_session() as session:
write_dataframe_to_db ==
    /\ pc = "Idle"
    /\ \E tname \in TableNames, dfs \in DataFrames, kw \in Kwargs :
          /\ Len(table.rows) + SumRows(dfs) <= MaxTableRows
          /\ manage_session_enter("write_dataframe_to_db", "w_for", tname, dfs, kw,
                                  0, <<>>)

\* for df in dataframes: rows = df.shape[0]; infer_sql_types(df);
\* with tqdm(total=rows) as progress_bar; range(0, rows, kwargs["chunksize"])
w_for ==
    /\ pc = "w_for"
    /\ IF dfIdx > Len(dataframes)
       THEN /\ pc' = "finally"
            /\ UNCHANGED <<exc, bodyExc, chunk_start, progress, reports, chunks,
                           column_sql_types>>
       ELSE IF DfEmpty(dataframes[dfIdx])
       THEN /\ Raise("EmptyDataFrameError")
            /\ UNCHANGED <<chunk_start, progress, reports, chunks, column_sql_types>>
       ELSE /\ column_sql_types' = infer_sql_types(dataframes[dfIdx]).map
            /\ progress' = 0
            /\ reports' = <<>>
            /\ chunks' = <<>>
            /\ chunk_start' = 0
            /\ IF ~kwargs.has_chunksize
               THEN Raise("KeyError:chunksize")
               ELSE IF kwargs.chunksize = 0
               THEN Raise("ValueError:range")
               ELSE pc' = "w_chunk" /\ UNCHANGED <<exc, bodyExc>>
    /\ UNCHANGED <<op, table, work, inTxn, sessionOpen, log, raised, ret,
                   table0, facade, inferVars, credVars, sent, callArgs, dfIdx,
                   chunk_end, infoLog, fetched>>

\* The chunk write is durable when to_sql returns: the session is in no
\* transaction, so to_sql runs in one of its own and commits it.
ChunkCommitted == ~inTxn

\* table = table_name.lower(): the name every chunk write is given
TargetName == Lower(table_name)

\* The keyword arguments to_sql is called with collide: **kwargs gives a
\* keyword the call already gives by name, and the call is a TypeError.
KeywordCollision(kw) == kw.schema # "missing"

\* **kwargs that loses the caller's if_exists on the way to to_sql
PassedKwargs_DropIfExists(kw) == [kw EXCEPT !.if_exists = "missing"]

\* **kwargs as to_sql receives it
PassedKwargs(kw) == kw

\* for chunk_start in range(...): chunk_end = min(...);
\* data_chunk = df.iloc[chunk_start:chunk_end];
\* data_chunk.to_sql(name=table, con=session, schema=self.schema,
\*                   dtype=column_sql_types, **kwargs)
w_chunk ==
    /\ pc = "w_chunk"
    /\ ~RangeDone(chunk_start, kwargs.chunksize, dataframes[dfIdx].rows)
    /\ chunk_end' = ChunkEnd(chunk_start, kwargs.chunksize, dataframes[dfIdx].rows)
    /\ IF KeywordCollision(kwargs)
       THEN /\ Raise("TypeError:schema")
            /\ UNCHANGED <<table, work, log, chunks, sent>>
       ELSE /\ chunks' = Append(chunks, <<chunk_start, chunk_end'>>)
            /\ log' = Append(log, "to_sql")
            /\ sent' = Append(sent, Sent("to_sql", TargetName, schema, dfIdx,
                                         <<chunk_start, chunk_end'>>,
                                         column_sql_types, PassedKwargs(kwargs)))
            /\ \E written \in BOOLEAN :
                  IF written /\ ~ToSqlFails(work, IfExists(PassedKwargs(kwargs)))
                  THEN /\ work' = ToSqlStore(work, Iloc(chunk_start, chunk_end'),
                                             IfExists(PassedKwargs(kwargs)))
                       /\ table' = IF ChunkCommitted THEN work' ELSE table
                       /\ pc' = "w_update"
                       /\ UNCHANGED <<exc, bodyExc>>
                  ELSE /\ Raise(IF written THEN "ValueError:table exists"
                                           ELSE "DBAPIError:to_sql")
                       /\ UNCHANGED <<table, work>>
    /\ UNCHANGED <<op, inTxn, sessionOpen, raised, ret, table0, facade,
                   inferVars, credVars, callArgs, dfIdx, chunk_start, progress,
                   reports, infoLog, fetched, column_sql_types>>

\* w_done with a session per dataset: the session is closed and a new one
\* opened when a DataFrame is finished.
w_done_SessionPerDataset ==
    /\ pc = "w_chunk"
    /\ RangeDone(chunk_start, kwargs.chunksize, dataframes[dfIdx].rows)
    /\ infoLog' = Append(infoLog, Info("Successfully wrote", dataframes[dfIdx].rows))
    /\ dfIdx' = dfIdx + 1
    /\ log' = log \o <<"close", "connect">>
    /\ pc' = "w_for"
    /\ UNCHANGED <<op, table, work, inTxn, sessionOpen, exc, bodyExc, raised,
                   ret, table0, facade, inferVars, credVars, sent, callArgs,
                   chunk_start, chunk_end, progress, reports, chunks, fetched,
                   column_sql_types>>

\* The range is exhausted: the tqdm block ends,
\* logger.info("Successfully wrote ..."), and the for loop takes the next df.
w_done ==
    /\ pc = "w_chunk"
    /\ RangeDone(chunk_start, kwargs.chunksize, dataframes[dfIdx].rows)
    /\ infoLog' = Append(infoLog, Info("Successfully wrote", dataframes[dfIdx].rows))
    /\ dfIdx' = dfIdx + 1
    /\ pc' = "w_for"
    /\ UNCHANGED <<op, table, work, inTxn, sessionOpen, log, exc, bodyExc,
                   raised, ret, table0, facade, inferVars, credVars, sent,
                   callArgs, chunk_start, chunk_end, progress, reports, chunks,
                   fetched, column_sql_types>>

\* A range that steps backwards
NextStart_Back(start, chunksize) == start - chunksize

\* The chunk_start that follows `start` in range(0, rows, chunksize)
NextStart(start, chunksize) == start + chunksize

\* progress_bar.update(data_chunk.shape[0]); next chunk_start of the range
w_update ==
    /\ pc = "w_update"
    /\ progress' = progress + ProgressDelta(chunk_start, chunk_end)
    /\ reports' = Append(reports, progress')
    /\ chunk_start' = NextStart(chunk_start, kwargs.chunksize)
    /\ pc' = "w_chunk"
    /\ UNCHANGED <<op, table, work, inTxn, sessionOpen, log, exc, bodyExc,
                   raised, ret, table0, facade, inferVars, credVars, sent,
                   callArgs, dfIdx, chunk_end, chunks, infoLog, fetched,
                   column_sql_types>>

----------------------------------------------------------------------------
\* The schema property

\* A schema property with a setter: the assignment takes effect.
set_schema_Setter ==
    /\ pc = "Idle"
    /\ \E value \in Schemas : schema' = value
    /\ op' = "set_schema"
    /\ pc' = "return"
    /\ UNCHANGED <<table, work, inTxn, sessionOpen, log, exc, bodyExc, raised,
                   ret, table0, callArgs, writeLocals, infoLog, fetched,
                   db_engine, sent, inferVars, credVars>>

\* handler.schema = value: the property has a getter only, so the assignment
\* raises AttributeError and the schema stays.
set_schema ==
    /\ pc = "Idle"
    /\ \E value \in Schemas : raised' = "AttributeError"
    /\ op' = "set_schema"
    /\ pc' = "return"
    /\ UNCHANGED <<table, work, inTxn, sessionOpen, log, exc, bodyExc, ret,
                   table0, callArgs, writeLocals, infoLog, fetched, facade,
                   sent, inferVars, credVars>>

----------------------------------------------------------------------------

Next ==
    \/ execute_query
    \/ q_execute
    \/ q_fetch
    \/ empty_table
    \/ t_execute
    \/ delete_records
    \/ d_execute
    \/ d_commit
    \/ write_dataframe_to_db
    \/ w_for
    \/ w_chunk
    \/ w_update
    \/ w_done
    \/ Rollback
    \/ Close
    \/ Return
    \/ set_schema

Spec == Init /\ [][Next]_vars

----------------------------------------------------------------------------
\* infer_sql_types called on its own

InitInfer ==
    /\ table = Store(FALSE, <<>>)
    /\ db_engine = [truncate_autocommits |-> TRUE]
    /\ inf_df \in InferInputs
    /\ inf_maps = <<>>
    /\ pc = "Idle"
    /\ op = "none"
    /\ work = table
    /\ inTxn = FALSE
    /\ sessionOpen = 0
    /\ log = <<>>
    /\ exc = "none"
    /\ bodyExc = "none"
    /\ raised = "none"
    /\ ret = NoValue
    /\ table0 = table
    /\ dataframes = <<>>
    /\ kwargs = NoKwargs
    /\ statement = 0
    /\ dfIdx = 1
    /\ chunk_start = 0
    /\ chunk_end = 0
    /\ progress = 0
    /\ reports = <<>>
    /\ chunks = <<>>
    /\ infoLog = <<>>
    /\ fetched = NoValue
    /\ schema = SchemaName
    /\ table_name = NoName
    /\ column_sql_types = <<>>
    /\ sent = <<>>
    /\ token_file = NoCreds
    /\ CredsAtRest

handlerVars ==
    <<pc, op, table, work, inTxn, sessionOpen, log, exc, bodyExc, raised, ret,
      table0, infoLog, fetched, sent, facade, callArgs, writeLocals>>

InferCall(df) == [df |-> df, result |-> infer_sql_types(df)]

\* infer_sql_types(df), and the same call once more
infer_call ==
    /\ Len(inf_maps) < 2
    /\ inf_maps' = Append(inf_maps, InferCall(inf_df))
    /\ UNCHANGED <<inf_df, handlerVars, credVars>>

\* infer_sql_types on df with its columns in another order
infer_reordered ==
    /\ Len(inf_maps) = 2
    /\ \E df \in Reordered(inf_df) : inf_maps' = Append(inf_maps, InferCall(df))
    /\ UNCHANGED <<inf_df, handlerVars, credVars>>

NextInfer ==
    \/ infer_call
    \/ infer_reordered

SpecInfer == InitInfer /\ [][NextInfer]_vars

----------------------------------------------------------------------------
\* GoogleDriveClientConfig.get_credentials

InitCreds ==
    /\ token_file \in StoredCredentials \cup {NoCreds}
    /\ CredsAtRest
    /\ table = Store(FALSE, <<>>)
    /\ db_engine = [truncate_autocommits |-> TRUE]
    /\ inf_df = [rows |-> 0, cols |-> <<>>]
    /\ inf_maps = <<>>
    /\ pc = "Idle"
    /\ op = "none"
    /\ work = table
    /\ inTxn = FALSE
    /\ sessionOpen = 0
    /\ log = <<>>
    /\ exc = "none"
    /\ bodyExc = "none"
    /\ raised = "none"
    /\ ret = NoValue
    /\ table0 = table
    /\ dataframes = <<>>
    /\ kwargs = NoKwargs
    /\ statement = 0
    /\ dfIdx = 1
    /\ chunk_start = 0
    /\ chunk_end = 0
    /\ progress = 0
    /\ reports = <<>>
    /\ chunks = <<>>
    /\ infoLog = <<>>
    /\ fetched = NoValue
    /\ schema = SchemaName
    /\ table_name = NoName
    /\ column_sql_types = <<>>
    /\ sent = <<>>

\* creds = self.retrieve_credentials(): the credentials of the token file, or
\* None when the file does not exist
get_credentials ==
    /\ g_pc = "Idle"
    /\ flows < MaxFlows
    /\ creds' = token_file
    /\ stored' = token_file
    /\ flow_creds' = NoCreds
    /\ refreshed' = FALSE
    /\ flow_ran' = FALSE
    /\ rewrote' = FALSE
    /\ g_ret' = NoCreds
    /\ g_raised' = "none"
    /\ g_pc' = "g_valid"
    /\ UNCHANGED <<token_file, flows, handlerVars, inferVars>>

\* if creds and creds.valid: return creds
g_valid ==
    /\ g_pc = "g_valid"
    /\ IF Valid(creds)
       THEN g_ret' = creds /\ g_pc' = "return"
       ELSE g_pc' = "g_expired" /\ UNCHANGED g_ret
    /\ UNCHANGED <<token_file, creds, flow_creds, stored, refreshed, flow_ran,
                   rewrote, flows, g_raised, handlerVars, inferVars>>

\* if creds and self._check_credentials_expire(creds):
g_expired ==
    /\ g_pc = "g_expired"
    /\ g_pc' = IF CheckCredentialsExpire(creds) THEN "g_refresh" ELSE "g_flow"
    /\ UNCHANGED <<token_file, creds, flow_creds, stored, refreshed, flow_ran,
                   rewrote, flows, g_ret, g_raised, handlerVars, inferVars>>

\* self._refresh_credentials(creds): creds.refresh(Request()) refreshes creds
\* in place or raises; control then goes on to the return statement.
g_refresh ==
    /\ g_pc = "g_refresh"
    /\ \E ok \in BOOLEAN :
          IF ok
          THEN /\ creds' = Refreshed(creds)
               /\ refreshed' = TRUE
               /\ g_pc' = "g_flow"
               /\ UNCHANGED g_raised
          ELSE /\ g_raised' = "RefreshError"
               /\ g_pc' = "return"
               /\ UNCHANGED <<creds, refreshed>>
    /\ UNCHANGED <<token_file, flow_creds, stored, flow_ran, rewrote, flows, g_ret,
                   handlerVars, inferVars>>

\* return self.get_credentials_from_flow(): creds = flow.run_local_server()
g_flow ==
    /\ g_pc = "g_flow"
    /\ flow_ran' = TRUE
    /\ \E ok \in BOOLEAN, r \in BOOLEAN :
          IF ok
          THEN /\ flow_creds' = Credentials(flows + 1, TRUE, FALSE, r)
               /\ flows' = flows + 1
               /\ g_pc' = "g_update"
               /\ UNCHANGED g_raised
          ELSE /\ g_raised' = "FlowError"
               /\ g_pc' = "return"
               /\ UNCHANGED <<flow_creds, flows>>
    /\ UNCHANGED <<token_file, creds, stored, refreshed, rewrote, g_ret,
                   handlerVars, inferVars>>

\* self.update_token_file(creds); return creds
g_update ==
    /\ g_pc = "g_update"
    /\ token_file' = flow_creds
    /\ rewrote' = TRUE
    /\ g_ret' = flow_creds
    /\ g_pc' = "return"
    /\ UNCHANGED <<creds, flow_creds, stored, refreshed, flow_ran, flows, g_raised,
                   handlerVars, inferVars>>

\* get_credentials has returned or raised: control is back with the caller.
g_return ==
    /\ g_pc = "return"
    /\ g_pc' = "Idle"
    /\ creds' = NoCreds
    /\ flow_creds' = NoCreds
    /\ stored' = NoCreds
    /\ refreshed' = FALSE
    /\ flow_ran' = FALSE
    /\ rewrote' = FALSE
    /\ g_ret' = NoCreds
    /\ g_raised' = "none"
    /\ UNCHANGED <<token_file, flows, handlerVars, inferVars>>

\* Between two calls the access token of the stored credentials expires.
token_expires ==
    /\ g_pc = "Idle"
    /\ token_file.kind = "Credentials"
    /\ ~token_file.expired
    /\ token_file' = [token_file EXCEPT !.expired = TRUE]
    /\ UNCHANGED <<g_pc, creds, flow_creds, stored, refreshed, flow_ran, rewrote,
                   flows, g_ret, g_raised, handlerVars, inferVars>>

NextCreds ==
    \/ get_credentials
    \/ g_valid
    \/ g_expired
    \/ g_refresh
    \/ g_flow
    \/ g_update
    \/ g_return
    \/ token_expires

SpecCreds == InitCreds /\ [][NextCreds]_vars

----------------------------------------------------------------------------
\* Properties

\* The rows of the first n DataFrames of dfs, in the order they are written
RECURSIVE RowsOfDatasets(_, _)
RowsOfDatasets(dfs, n) ==
    IF n = 0 THEN <<>>
    ELSE RowsOfDatasets(dfs, n - 1) \o Iloc(0, dfs[n].rows)

\* The engine calls issued under the session opened last
RECURSIVE SessionLog(_)
SessionLog(l) ==
    IF l = <<>> THEN <<>>
    ELSE IF l[Len(l)] = "connect" THEN <<"connect">>
    ELSE Append(SessionLog(SubSeq(l, 1, Len(l) - 1)), l[Len(l)])

\* Sessions the finished operation opened
SessionsOpened ==
    IF raised = "DBAPIError:connect" \/ op = "set_schema" THEN 0 ELSE 1

\* A write whose chunk write of DataFrame dfIdx raised at a chunk after the first
ChunkWriteFailedLate ==
    /\ pc = "return"
    /\ op = "write_dataframe_to_db"
    /\ bodyExc = "DBAPIError:to_sql"
    /\ chunk_start > 0

\* C1: all-or-nothing per dataset.  When the chunk write of dataset Di fails
\* at a chunk k > 0 of an appending write, the table afterwards holds the rows
\* it held before the call and every row of D1..Di-1, and none of Di's rows.
C1_AllOrNothingPerDataset ==
    (ChunkWriteFailedLate /\ IfExists(kwargs) = "append")
        => table.rows = table0.rows \o RowsOfDatasets(dataframes, dfIdx - 1)

\* C2 (as claimed): a session never spans two datasets.  Whenever a chunk of
\* a dataset is about to be written or was just written, every chunk write
\* issued under the open session is a chunk of that dataset.
C2_SessionPerDataset ==
    (op = "write_dataframe_to_db" /\ pc \in {"w_chunk", "w_update"})
        => Count(SessionLog(log), "to_sql") = Len(chunks)

\* C2 (amended): a write call opens exactly one session for the whole call,
\* before the first chunk of the first dataset, and closes it once, after the
\* last chunk of the last dataset; no session is opened per chunk or per
\* dataset, and the one session spans every dataset of the call.
C2_OneSessionPerCall ==
    op = "write_dataframe_to_db"
        => /\ Count(log, "connect") = 1
           /\ log[1] = "connect"
           /\ pc \in {"w_for", "w_chunk", "w_update", "except", "finally"}
                => (sessionOpen = 1 /\ Count(log, "close") = 0)
           /\ (pc = "return" /\ SessionsOpened = 1)
                => (Count(log, "close") = 1 /\ log[Len(log)] = "close")

\* Witness of C2: a write of two datasets, three chunks in all, has returned.
C2_Witness ==
    /\ pc = "return"
    /\ op = "write_dataframe_to_db"
    /\ raised = "none"
    /\ Len(dataframes) = 2
    /\ Count(log, "to_sql") >= 3

\* C3: every session an operation opened is closed exactly once when the
\* operation has returned or raised; at most one session is ever open, and
\* none is open between operations.
C3_SessionsClosed ==
    /\ sessionOpen \in {0, 1}
    /\ pc \in {"Idle", "return"} => sessionOpen = 0
    /\ pc = "return" => Count(log, "close") = SessionsOpened
    /\ pc \notin {"Idle", "return"} => (sessionOpen = 1 /\ Count(log, "close") = 0)

\* Witness of C3: an operation whose body raised, and whose rollback raised
\* too, has ended with its session closed.
C3_Witness ==
    /\ pc = "return"
    /\ bodyExc # "none"
    /\ raised = "DBAPIError:rollback"
    /\ Count(log, "close") = 1
    /\ sessionOpen = 0

\* Witness of C4: the body raised, the rollback succeeded, and the body's
\* error has reached the caller.
C4_Witness ==
    /\ pc = "return"
    /\ bodyExc = "DBAPIError:to_sql"
    /\ raised = bodyExc
    /\ log[Len(log) - 1] = "rollback"

\* C4 (as claimed): when the body raises, a rollback is issued before the
\* close and the error that reaches the caller is the body's error; when the
\* body does not raise, no rollback is issued.
C4_OriginalErrorReraised ==
    (pc = "return" /\ SessionsOpened = 1)
        => /\ bodyExc # "none"
                => /\ Count(log, "rollback") = 1
                   /\ log[Len(log) - 1] = "rollback"
                   /\ log[Len(log)] = "close"
                   /\ raised = bodyExc
           /\ bodyExc = "none"
                => (Count(log, "rollback") = 0 /\ raised = "none")

\* C4 (amended): when the body raises, a rollback is issued before the close
\* and an error reaches the caller: the body's error unchanged, or the
\* rollback's own error when the rollback raises; when the body does not
\* raise, no rollback is issued and no error reaches the caller.
C4_RollbackThenReraise ==
    /\ (pc = "return" /\ SessionsOpened = 1)
        => /\ bodyExc # "none"
                => /\ Count(log, "rollback") = 1
                   /\ log[Len(log) - 1] = "rollback"
                   /\ log[Len(log)] = "close"
                   /\ raised \in {bodyExc, "DBAPIError:rollback"}
           /\ bodyExc = "none"
                => (Count(log, "rollback") = 0 /\ raised = "none")
    /\ pc = "finally" => exc \in {bodyExc, "DBAPIError:rollback"}
    /\ pc = "except" => (exc = bodyExc /\ exc # "none")

\* Chunk writes a finished DataFrame of `rows` rows takes
NumChunks(rows, chunksize) ==
    IF chunksize < 0 THEN 0 ELSE (rows + chunksize - 1) \div chunksize

RECURSIVE ChunksOfDatasets(_, _, _)
ChunksOfDatasets(dfs, n, chunksize) ==
    IF n = 0 THEN 0
    ELSE ChunksOfDatasets(dfs, n - 1, chunksize) + NumChunks(dfs[n].rows, chunksize)

\* C5 (as claimed): a write that meets a zero-row dataset raises
\* EmptyDataFrameError and has issued no engine call at all.
C5_EmptyDatasetNoEngineCall ==
    (pc = "return" /\ op = "write_dataframe_to_db"
        /\ bodyExc = "EmptyDataFrameError")
        => log = <<>>

\* C5 (amended): a write that reaches a zero-row dataset raises
\* EmptyDataFrameError and sends no chunk write for that dataset or any after
\* it; the session is opened before the check, and it is rolled back and
\* closed after it.  A zero-row dataset is never skipped: a write that returns
\* normally had none.
C5_EmptyDatasetRejected ==
    (pc = "return" /\ op = "write_dataframe_to_db" /\ SessionsOpened = 1)
        => /\ \A i \in 1..Len(dataframes) :
                (dataframes[i].rows = 0 /\ i <= dfIdx)
                    => (i = dfIdx /\ bodyExc = "EmptyDataFrameError")
           /\ raised = "none" => \A i \in 1..Len(dataframes) : dataframes[i].rows # 0
           /\ bodyExc = "EmptyDataFrameError"
                => /\ dataframes[dfIdx].rows = 0
                   /\ log[1] = "connect"
                   /\ Count(log, "to_sql")
                        = ChunksOfDatasets(dataframes, dfIdx - 1, kwargs.chunksize)
                   /\ SubSeq(log, Len(log) - 1, Len(log)) = <<"rollback", "close">>

\* Witness of C5: the second dataset of a write is empty, the first was written.
C5_Witness ==
    /\ pc = "return"
    /\ op = "write_dataframe_to_db"
    /\ bodyExc = "EmptyDataFrameError"
    /\ dfIdx = 2
    /\ Count(log, "to_sql") >= 1

\* C6: chunk coverage.  For a dataset of R >= 1 rows and a chunk size C >= 1,
\* the chunks issued so far are contiguous from 0, non-overlapping, non-empty,
\* each of at most C rows and within [0, R); when the range is exhausted they
\* cover every row index of [0, R) exactly once, and the last one has
\* R mod C rows when that is nonzero and C rows otherwise.
C6_ChunkCoverage ==
    (op = "write_dataframe_to_db" /\ pc \in {"w_chunk", "w_update"}
        /\ kwargs.chunksize >= 1)
        => LET R == dataframes[dfIdx].rows
               C == kwargs.chunksize
               n == Len(chunks)
           IN  /\ \A i \in 1..n :
                    /\ chunks[i][1] = IF i = 1 THEN 0 ELSE chunks[i - 1][2]
                    /\ chunks[i][1] < chunks[i][2]
                    /\ chunks[i][2] - chunks[i][1] <= C
                    /\ chunks[i][2] <= R
               /\ (pc = "w_chunk" /\ chunk_start >= R)
                    => /\ n >= 1
                       /\ \A r \in 0..(R - 1) :
                            Cardinality({i \in 1..n :
                                chunks[i][1] <= r /\ r < chunks[i][2]}) = 1
                       /\ chunks[n][2] - chunks[n][1]
                            = IF R % C # 0 THEN R % C ELSE C

\* Witness of C6: a dataset of 3 rows was cut into chunks of 2 and 1 rows.
C6_Witness ==
    /\ op = "write_dataframe_to_db"
    /\ pc = "w_chunk"
    /\ kwargs.chunksize = 2
    /\ dataframes[dfIdx].rows = 3
    /\ chunk_start >= 3
    /\ chunks = <<(<<0, 2>>), (<<2, 3>>)>>

\* C7: progress monotonicity.  During the write of one dataset with R rows
\* and chunk size C >= 1, progress starts at zero, is advanced only after a
\* chunk's write has returned and by that chunk's row count, so the reported
\* values are strictly increasing and the last one equals R.
C7_ProgressMonotone ==
    (op = "write_dataframe_to_db" /\ kwargs.chunksize >= 1
        /\ \/ pc \in {"w_chunk", "w_update"}
           \/ bodyExc \in {"DBAPIError:to_sql", "ValueError:table exists"})
        => LET R == dataframes[dfIdx].rows
               n == Len(reports)
           IN  /\ progress = IF n = 0 THEN 0 ELSE reports[n]
               /\ n = IF pc = "w_chunk" THEN Len(chunks) ELSE Len(chunks) - 1
               /\ \A i \in 1..n :
                    /\ reports[i] > (IF i = 1 THEN 0 ELSE reports[i - 1])
                    /\ reports[i] - (IF i = 1 THEN 0 ELSE reports[i - 1])
                         = chunks[i][2] - chunks[i][1]
               /\ (pc = "w_chunk" /\ chunk_start >= R)
                    => (n >= 1 /\ reports[n] = R)

\* Witness of C7: 3 rows in chunks of 2 reported 2, then 3.
C7_Witness ==
    /\ op = "write_dataframe_to_db"
    /\ pc = "w_chunk"
    /\ kwargs.chunksize = 2
    /\ dataframes[dfIdx].rows = 3
    /\ reports = <<2, 3>>

\* s ends with t
EndsWith(s, t) ==
    /\ Len(t) <= Len(s)
    /\ SubSeq(s, Len(s) - Len(t) + 1, Len(s)) = t

\* C8: a write with a positive chunk size that returns normally has written
\* every row of every input dataset, in chunk order, whatever the write mode:
\* the table holds its prior rows followed by all rows of all datasets (in
\* mode "replace", all rows of all datasets after whatever it kept).
C8_AllRowsWritten ==
    (pc = "return" /\ op = "write_dataframe_to_db" /\ raised = "none"
        /\ kwargs.has_chunksize /\ kwargs.chunksize >= 1)
        => LET all == RowsOfDatasets(dataframes, Len(dataframes))
           IN  IF IfExists(kwargs) = "replace"
               THEN EndsWith(table.rows, all)
               ELSE table.rows = table0.rows \o all

\* Rows of `rows` a statement with predicate p matches
MatchCount(rows, p) == Cardinality({i \in 1..Len(rows) : rows[i] < p})

\* C9 (as claimed): delete_records returns the number of rows the delete
\* statement affected.
C9_ReturnsAffectedCount ==
    (pc = "return" /\ op = "delete_records" /\ raised = "none")
        => ret = IntValue(MatchCount(table0.rows, statement))

\* C9 (amended): delete_records reports the number of rows the delete
\* statement affected in its log message and returns None; when no row
\* matches it reports a count of zero and raises nothing.
C9_LogsAffectedCount ==
    (pc = "return" /\ op = "delete_records" /\ raised = "none")
        => /\ ret = NoneValue
           /\ infoLog[Len(infoLog)]
                = Info("Deleted", MatchCount(table0.rows, statement))
           /\ MatchCount(table0.rows, statement)
                = Len(table0.rows) - Len(table.rows)

\* Witness of C9: a delete that matched some rows and not others has returned.
C9_Witness ==
    /\ pc = "return"
    /\ op = "delete_records"
    /\ raised = "none"
    /\ MatchCount(table0.rows, statement) \in 1..(Len(table0.rows) - 1)

\* Witness of C9, no match: a delete that matched no row of a table that
\* has rows returned normally.
C9_WitnessZero ==
    /\ pc = "return"
    /\ op = "delete_records"
    /\ raised = "none"
    /\ Len(table0.rows) > 0
    /\ MatchCount(table0.rows, statement) = 0

\* C10: delete_records commits exactly once, after the delete statement
\* succeeded and before the session is closed; the table then holds exactly
\* the rows that did not match, in their order.  Nothing is durable before
\* the commit, and when the statement raises no commit is issued and the
\* table is left as it was.
C10_DeleteCommitsOnce ==
    op = "delete_records"
        => /\ Count(log, "commit") <= 1
           /\ pc \in {"d_execute", "d_commit"} => table = table0
           /\ (pc = "return" /\ raised = "none")
                => /\ log = <<"connect", "execute", "commit", "close">>
                   /\ table.exists
                   /\ table.rows = Remaining(table0.rows, statement)
           /\ (pc = "return" /\ bodyExc = "DBAPIError:execute")
                => (Count(log, "commit") = 0 /\ table = table0)
           /\ (pc = "return" /\ raised # "none") => table = table0

\* Witness of C10: a delete of some of the rows has been committed.
C10_Witness ==
    /\ pc = "return"
    /\ op = "delete_records"
    /\ raised = "none"
    /\ Len(table.rows) \in 1..(Len(table0.rows) - 1)

\* Witness of C10, failure: the delete statement raised on a table with rows.
C10_WitnessFailed ==
    /\ pc = "return"
    /\ op = "delete_records"
    /\ bodyExc = "DBAPIError:execute"
    /\ Len(table0.rows) > 0

\* C11: when empty_table returns normally the table durably holds zero rows,
\* whether or not it held rows before: what the truncate did is committed by
\* the time the session is closed.
C11_TruncateDurable ==
    (pc = "return" /\ op = "empty_table" /\ raised = "none")
        => (table.exists /\ table.rows = <<>>)

\* C12: execute_query reads the column names and all the rows of the result
\* while its session is open, after the statement was executed and before the
\* close, and what it returns is exactly what it read then: the column names
\* and the rows the statement selects, in order.  A statement that selects no
\* row returns the column names with no rows and raises nothing.
C12_ReadBeforeClose ==
    op = "execute_query"
        => /\ Count(log, "fetchall") <= 1
           /\ fetched # NoValue
                => /\ SubSeq(log, 1, 3) = <<"connect", "execute", "fetchall">>
                   /\ fetched = DataFrameValue(ColumnNames,
                                               Select(table0.rows, statement))
           /\ (pc = "finally" /\ exc = "none")
                => (sessionOpen = 1 /\ fetched # NoValue)
           /\ (pc = "return" /\ raised = "none")
                => /\ log = <<"connect", "execute", "fetchall", "close">>
                   /\ ret.kind = "DataFrame"
                   /\ ret.columns = ColumnNames
                   /\ ret.rows = Select(table0.rows, statement)
                   /\ Len(ret.rows) = MatchCount(table0.rows, statement)

\* Witness of C12: a query that selects none of the rows of a table that holds
\* rows has returned the column names and no rows.
C12_Witness ==
    /\ pc = "return"
    /\ op = "execute_query"
    /\ raised = "none"
    /\ table0.rows # <<>>
    /\ ret.rows = <<>>
    /\ ret.columns = ColumnNames

\* Witness of C12: a query has returned some of the rows of the table.
C12_WitnessRows ==
    /\ pc = "return"
    /\ op = "execute_query"
    /\ raised = "none"
    /\ Len(ret.rows) \in 1..(Len(table0.rows) - 1)

----------------------------------------------------------------------------
\* Properties of infer_sql_types (checked under SpecInfer)

\* The calls of infer_sql_types made so far on a DataFrame that is not empty
InferCalls == {inf_maps[i] : i \in {j \in DOMAIN inf_maps : ~DfEmpty(inf_maps[j].df)}}

TextDtypes == {"object", "category", "string[pyarrow]"}
FloatDtypes == {"float64", "double[pyarrow]"}
DateDtypes == {"datetime64[ns]", "timestamp[us][pyarrow]"}
TzAwareDtypes == {"datetime64[ns, UTC]", "timestamp[us, tz=UTC][pyarrow]"}
DecimalDtypes == {"decimal128(10, 2)[pyarrow]"}

\* C13 (as claimed): every column of a DataFrame that is not empty is mapped
\* by its representation, text and category to String (TEXT), 64-bit float
\* and decimal-like to FLOAT, 64-bit integer to NUMBER (NUMERIC), date and
\* timestamp to DATE, the timezone-aware timestamps included, and the map has
\* exactly one entry per column.
C13_MapsByRepresentation ==
    \A c \in InferCalls :
        /\ c.result.err = "none"
        /\ Cardinality(DOMAIN c.result.map) = Len(c.df.cols)
        /\ \A i \in DOMAIN c.df.cols :
              LET col == c.df.cols[i]
              IN  /\ col.name \in DOMAIN c.result.map
                  /\ col.dtype \in TextDtypes => c.result.map[col.name] = "String"
                  /\ col.dtype \in FloatDtypes \cup DecimalDtypes
                        => c.result.map[col.name] = "FLOAT"
                  /\ col.dtype = "int64" => c.result.map[col.name] = "NUMBER"
                  /\ col.dtype \in DateDtypes \cup TzAwareDtypes
                        => c.result.map[col.name] = "DATE"

\* The columns of df labelled `label`
ColumnsLabelled(df, label) == {i \in DOMAIN df.cols : df.cols[i].name = label}

\* C13 (amended): the map of a DataFrame that is not empty has exactly one
\* entry per distinct column label.  A label carried by one column is mapped
\* by the string of that column's dtype: object, category and string[pyarrow]
\* to String, float64 and double[pyarrow] to FLOAT, int64 to NUMBER,
\* datetime64[ns] and timestamp[us][pyarrow] to DATE, and every other dtype,
\* the timezone-aware timestamps and the decimals among them, to String.  A
\* label carried by several columns is mapped to String.
C13_MapsByMappingKey ==
    \A c \in InferCalls :
        /\ c.result.err = "none"
        /\ DOMAIN c.result.map = {c.df.cols[i].name : i \in DOMAIN c.df.cols}
        /\ \A i \in DOMAIN c.df.cols :
              LET col == c.df.cols[i]
                  sql == c.result.map[col.name]
              IN  IF Cardinality(ColumnsLabelled(c.df, col.name)) > 1
                  THEN sql = "String"
                  ELSE /\ col.dtype \in TextDtypes => sql = "String"
                       /\ col.dtype \in FloatDtypes => sql = "FLOAT"
                       /\ col.dtype = "int64" => sql = "NUMBER"
                       /\ col.dtype \in DateDtypes => sql = "DATE"
                       /\ col.dtype \notin TextDtypes \cup FloatDtypes
                                           \cup DateDtypes \cup {"int64"}
                             => sql = "String"

\* Witness of C13: infer_sql_types has mapped a DataFrame with an int64 column
\* and a timezone-aware timestamp column, to NUMBER and to String.
C13_Witness ==
    \E c \in InferCalls :
        \E i, j \in DOMAIN c.df.cols :
            /\ c.df.cols[i].name # c.df.cols[j].name
            /\ c.df.cols[i].dtype = "int64"
            /\ c.df.cols[j].dtype \in TzAwareDtypes
            /\ c.result.map[c.df.cols[i].name] = "NUMBER"
            /\ c.result.map[c.df.cols[j].name] = "String"

\* C14: the map infer_sql_types returns for a DataFrame that is not empty
\* depends on the columns only and not on their order: calls on the same
\* DataFrame, and calls on DataFrames that differ in the order of their
\* columns only, return the same map.  A column whose dtype is no key of the
\* mapping is mapped to String (TEXT), and the call does not raise.
C14_OrderIndependentDefault ==
    /\ \A c, d \in InferCalls :
          d.df \in Reordered(c.df) => d.result = c.result
    /\ \A i, j \in DOMAIN inf_maps :
          inf_maps[i].df = inf_maps[j].df => inf_maps[i].result = inf_maps[j].result
    /\ \A c \in InferCalls :
          /\ c.result.err = "none"
          /\ \A i \in DOMAIN c.df.cols :
                c.df.cols[i].dtype \in UnmappedDtypes
                    => c.result.map[c.df.cols[i].name] = "String"

\* Witness of C14: infer_sql_types was called twice on a DataFrame and once on
\* the DataFrame with its two columns swapped, one of them of a dtype that is
\* no key of the mapping, and returned the same map each time.
C14_Witness ==
    /\ Len(inf_maps) = 3
    /\ ~DfEmpty(inf_df)
    /\ inf_maps[1].df = inf_maps[2].df
    /\ inf_maps[3].df.cols # inf_maps[1].df.cols
    /\ inf_maps[1].df.cols[1].name # inf_maps[1].df.cols[2].name
    /\ inf_maps[1].df.cols[1].dtype \in UnmappedDtypes
    /\ inf_maps[1].df.cols[2].dtype \in MappedDtypes
    /\ inf_maps[3].result = inf_maps[1].result
    /\ inf_maps[2].result = inf_maps[1].result

----------------------------------------------------------------------------
\* Properties of the statements and chunk writes sent to the engine

\* The chunk writes sent to the engine by the running operation
ToSqlCalls == SelectSeq(sent, LAMBDA c : c.fn = "to_sql")

\* C15 (as claimed): write_dataframe_to_db accepts the if_exists, chunksize
\* and schema options without rejecting the call, and every chunk write
\* receives the options the caller gave, unchanged.
C15_OptionsAccepted ==
    op = "write_dataframe_to_db"
        => /\ bodyExc # "TypeError:schema"
           /\ \A i \in DOMAIN ToSqlCalls : ToSqlCalls[i].kwargs = kwargs

\* C15 (amended): every chunk write receives the keyword arguments the caller
\* gave, unchanged, and the if_exists and chunksize options are accepted: no
\* call is rejected for giving them.  A schema option is not accepted: the
\* chunk write is given the handler's schema by name already, so the first
\* chunk write is a TypeError raised before anything is sent to the engine,
\* and the table stays as it was.
C15_OptionsPassedThrough ==
    op = "write_dataframe_to_db"
        => /\ \A i \in DOMAIN ToSqlCalls : ToSqlCalls[i].kwargs = kwargs
           /\ Len(ToSqlCalls) = Count(log, "to_sql")
           /\ bodyExc = "TypeError:schema" => kwargs.schema # "missing"
           /\ kwargs.schema # "missing"
                => /\ sent = <<>>
                   /\ table = table0
                   /\ (pc = "return" /\ raised = "none")
                        => \A i \in DOMAIN dataframes :
                              RangeDone(0, kwargs.chunksize, dataframes[i].rows)

\* Witness of C15: a write given chunksize and if_exists has returned after
\* two or more chunk writes, each of which received both options.
C15_Witness ==
    /\ pc = "return"
    /\ op = "write_dataframe_to_db"
    /\ raised = "none"
    /\ kwargs.has_chunksize
    /\ kwargs.if_exists # "missing"
    /\ Len(ToSqlCalls) >= 2
    /\ \A i \in DOMAIN ToSqlCalls : ToSqlCalls[i].kwargs = kwargs

\* Witness of C15, schema option: a write given a schema option has raised
\* the TypeError of its first chunk write.
C15_WitnessSchema ==
    /\ pc = "return"
    /\ op = "write_dataframe_to_db"
    /\ raised = "TypeError:schema"
    /\ kwargs.schema # "missing"

\* C16: within one write_dataframe_to_db call the chunk writes are sent one
\* at a time and in order.  The first is the chunk at row 0 of the first
\* DataFrame; the chunk sent after a chunk of DataFrame j is either the next
\* rows of DataFrame j, starting where that chunk ended, or, when that chunk
\* ended at the last row of DataFrame j, the chunk at row 0 of DataFrame
\* j + 1.  A chunk is sent only when every chunk sent before it has returned
\* and been reported.
C16_ChunksInOrder ==
    op = "write_dataframe_to_db"
        => /\ ToSqlCalls # <<>>
                => (ToSqlCalls[1].df = 1 /\ ToSqlCalls[1].chunk[1] = 0)
           /\ \A i \in 1..(Len(ToSqlCalls) - 1) :
                 LET a == ToSqlCalls[i]
                     b == ToSqlCalls[i + 1]
                 IN  \/ /\ b.df = a.df
                        /\ a.chunk[1] < b.chunk[1]
                        /\ b.chunk[1] = a.chunk[2]
                     \/ /\ b.df = a.df + 1
                        /\ a.chunk[2] = dataframes[a.df].rows
                        /\ b.chunk[1] = 0
           /\ \A i \in DOMAIN ToSqlCalls :
                 /\ ToSqlCalls[i].df \in 1..dfIdx
                 /\ ToSqlCalls[i].chunk[1] < ToSqlCalls[i].chunk[2]
           /\ pc = "w_chunk" => Len(reports) = Len(chunks)
           /\ pc = "w_update" => Len(reports) = Len(chunks) - 1

\* Witness of C16: a write of two DataFrames of two chunks each has returned.
C16_Witness ==
    /\ pc = "return"
    /\ op = "write_dataframe_to_db"
    /\ raised = "none"
    /\ \E i, j \in DOMAIN ToSqlCalls :
          /\ ToSqlCalls[i].df = 1 /\ ToSqlCalls[i].chunk[1] > 0
          /\ ToSqlCalls[j].df = 2 /\ ToSqlCalls[j].chunk[1] > 0

\* The errors of the calls made on an open session
EngineErrors ==
    {"DBAPIError:execute", "DBAPIError:commit", "DBAPIError:to_sql",
     "ValueError:table exists"}

\* The engine call that raises the error e
FailingCall(e) ==
    CASE e = "DBAPIError:execute" -> "execute"
      [] e = "DBAPIError:commit" -> "commit"
      [] e \in {"DBAPIError:to_sql", "ValueError:table exists"} -> "to_sql"

\* Each statement and each chunk is sent to the engine at most once.
IssuedOnce ==
    /\ Count(log, "connect") <= 1
    /\ Count(log, "execute") <= 1
    /\ Count(log, "fetchall") <= 1
    /\ Count(log, "commit") <= 1
    /\ Count(log, "rollback") <= 1
    /\ Count(log, "to_sql") = Len(ToSqlCalls)
    /\ \A i, j \in DOMAIN ToSqlCalls :
          (ToSqlCalls[i].df = ToSqlCalls[j].df
           /\ ToSqlCalls[i].chunk = ToSqlCalls[j].chunk) => i = j

\* After the first error of a call on the session nothing more is sent to
\* the engine but the rollback and the close.
FirstErrorEnds ==
    bodyExc \in EngineErrors
        => /\ pc \in {"except", "finally", "return"}
           /\ Count(log, FailingCall(bodyExc)) >= 1
           /\ pc = "except" => log[Len(log)] = FailingCall(bodyExc)
           /\ pc = "finally" => EndsWith(log, <<FailingCall(bodyExc), "rollback">>)
           /\ pc = "return"
                => EndsWith(log, <<FailingCall(bodyExc), "rollback", "close">>)

\* C17 (as claimed): no operation retries: each statement or chunk write is
\* issued at most once, the first engine error ends the operation, and the
\* rollback is issued before that error reaches the caller unchanged.
C17_NoRetryErrorUnchanged ==
    /\ IssuedOnce
    /\ FirstErrorEnds
    /\ (pc = "return" /\ bodyExc \in EngineErrors) => raised = bodyExc

\* C17 (amended): no operation retries: each statement or chunk write is
\* issued at most once and the first error of a call on the session ends the
\* operation: the rollback and the close follow it and nothing else, and an
\* error reaches the caller, the error of the call when the rollback
\* succeeds and the rollback's own error when the rollback raises.  When the
\* connect itself raises there is no session: no rollback is issued and the
\* connect's error reaches the caller.
C17_NoRetryErrorAfterRollback ==
    /\ IssuedOnce
    /\ FirstErrorEnds
    /\ (pc = "return" /\ bodyExc \in EngineErrors)
          => /\ raised \in {bodyExc, "DBAPIError:rollback"}
             /\ raised = "DBAPIError:rollback" => Count(log, "rollback") = 1
    /\ (pc = "return" /\ raised = "DBAPIError:connect")
          => (log = <<"connect">> /\ bodyExc = "none")

\* Witness of C17: the second chunk write of a DataFrame raised an engine
\* error; the write has ended with the error after the rollback and the close.
C17_Witness ==
    /\ pc = "return"
    /\ op = "write_dataframe_to_db"
    /\ bodyExc = "DBAPIError:to_sql"
    /\ raised = bodyExc
    /\ Len(ToSqlCalls) = 2
    /\ EndsWith(log, <<"to_sql", "to_sql", "rollback", "close">>)

\* Witness of C17, rollback: a statement raised, then the rollback raised.
C17_WitnessRollback ==
    /\ pc = "return"
    /\ bodyExc = "DBAPIError:execute"
    /\ raised = "DBAPIError:rollback"

\* C18: every operation that takes a table name addresses the table by the
\* lower-cased name: every statement and every chunk write the operation
\* sends to the engine names table_name.lower(), so that a write and an
\* empty_table given the same name address the same table.
C18_LowerCasedName ==
    op \in {"empty_table", "write_dataframe_to_db"}
        => \A i \in DOMAIN sent : sent[i].name = Lower(table_name)

C20_SameOptionsEveryChunk ==
    op = "write_dataframe_to_db"
        => /\ \A i \in DOMAIN ToSqlCalls :
                 /\ ToSqlCalls[i].kwargs = kwargs
                 /\ ToSqlCalls[i].dtype
                        = infer_sql_types(dataframes[ToSqlCalls[i].df]).map
           /\ pc \in {"w_chunk", "w_update"}
                => column_sql_types = infer_sql_types(dataframes[dfIdx]).map
           /\ bodyExc = "ValueError:table exists"
                => (IfExists(kwargs) = "fail" /\ table.exists)
           /\ IfExists(kwargs) = "fail"
                => /\ Len(ToSqlCalls) <= 2
                   /\ Len(ToSqlCalls) = 2
                        => bodyExc \in {"ValueError:table exists", "DBAPIError:to_sql"}
                   /\ (pc = "return" /\ raised = "none")
                        => \A i \in DOMAIN dataframes :
                              NumChunks(dataframes[i].rows, kwargs.chunksize) <= 1

\* Witness of C20: with no if_exists given, the second chunk write of a
\* DataFrame found the table its first chunk write created; the write has
\* raised and the table holds the first chunk.
C20_Witness ==
    /\ pc = "return"
    /\ op = "write_dataframe_to_db"
    /\ kwargs.if_exists = "missing"
    /\ ~table0.exists
    /\ raised = "ValueError:table exists"
    /\ Len(ToSqlCalls) = 2
    /\ ToSqlCalls[2].df = 1
    /\ table.rows = Iloc(0, kwargs.chunksize)

\* Witness of C20: a write of one chunk with if_exists 'fail' has returned.
C20_WitnessOneChunk ==
    /\ pc = "return"
    /\ op = "write_dataframe_to_db"
    /\ kwargs.if_exists = "fail"
    /\ raised = "none"
    /\ Len(ToSqlCalls) = 1

\* C21: a write given one or more DataFrames and a chunksize that is missing,
\* zero or negative sends no chunk write and reports no DataFrame as
\* successfully written; once its session is open it ends with an error,
\* after the rollback and the close of that session.
C21_BadChunksizeRaises ==
    (/\ op = "write_dataframe_to_db"
     /\ dataframes # <<>>
     /\ (~kwargs.has_chunksize \/ kwargs.chunksize <= 0))
        => /\ Count(log, "to_sql") = 0
           /\ \A i \in DOMAIN infoLog : infoLog[i].msg # "Successfully wrote"
           /\ (pc = "return" /\ SessionsOpened = 1)
                => /\ raised # "none"
                   /\ EndsWith(log, <<"rollback", "close">>)

\* C22: when the rollback of _manage_session itself raises, the session is
\* still closed, once, before the rollback's error reaches the caller: while
\* that error is in flight the session is open and not yet closed, and when
\* it has reached the caller the close was the last call on the session and
\* no session is open.
C22_ClosedWhenRollbackRaises ==
    /\ (pc = "finally" /\ exc = "DBAPIError:rollback")
          => /\ sessionOpen = 1
             /\ raised = "none"
             /\ Count(log, "close") = 0
             /\ log[Len(log)] = "rollback"
    /\ raised = "DBAPIError:rollback"
          => /\ pc = "return"
             /\ sessionOpen = 0
             /\ Count(log, "close") = 1
             /\ EndsWith(log, <<"rollback", "close">>)

\* Witness of C22: the commit of a delete raised, then the rollback raised,
\* and the rollback's error has reached the caller.
C22_Witness ==
    /\ pc = "return"
    /\ op = "delete_records"
    /\ bodyExc = "DBAPIError:commit"
    /\ raised = "DBAPIError:rollback"
    /\ sessionOpen = 0

----------------------------------------------------------------------------
\* Properties of get_credentials (checked under SpecCreds)

\* The token file supplied usable credentials to the current call: valid
\* ones, or expired ones with a refresh token that the call has refreshed.
StoredUsable ==
    \/ Valid(stored)
    \/ (CheckCredentialsExpire(stored) /\ refreshed)

\* C23: get_credentials runs the interactive flow and rewrites the token file
\* only when the token file cannot supply usable credentials: when the stored
\* credentials are valid, or are expired with a refresh token and have been
\* refreshed, the call returns them, the flow is not run and the token file
\* is left as it was.
C23_FlowOnlyWhenUnusable ==
    StoredUsable
        => /\ ~flow_ran
           /\ ~rewrote
           /\ g_pc \notin {"g_flow", "g_update"}
           /\ (g_pc = "return" /\ g_raised = "none")
                => /\ g_ret.kind = "Credentials"
                   /\ g_ret.id = stored.id
                   /\ Valid(g_ret)
                   /\ token_file = stored

=============================================================================
